---- MODULE Spec2Model ----
(***************************************************************************)
(* Model of the geocode resolution and caching code of src/app.py:         *)
(*   get_cached_locations  (lines 89-97)   read the location_cache table   *)
(*   save_locations_to_db  (lines 53-87)   upsert a batch through the      *)
(*                                         staging table location_cache_temp*)
(*   geocode_locations     (lines 99-163)  cache first, then the external  *)
(*                                         geocoder, then one flush        *)
(*                                                                         *)
(* Units.  A latitude or longitude is an integer number of 10^-9 degrees,  *)
(* so that values finer than the 8 decimal places of the DECIMAL(10, 8)    *)
(* and DECIMAL(11, 8) columns exist.  Time is in tenths of a second.       *)
(***************************************************************************)
EXTENDS Integers, Sequences, FiniteSets, TLC

VARIABLES
    municipalities,    \* the argument of geocode_locations
    cached_locations,  \* app.py:104
    locations,         \* app.py:105, the dict that is returned
    locations_to_save, \* app.py:106
    i,                 \* 1-based position of the for loop of app.py:115
    pc,                \* position of the running call
    calls,             \* log of the geolocator.geocode calls issued
    now,               \* time slept so far, in tenths of a second
    saves,             \* log of the batches save_locations_to_db was called with
    db,                \* rows of table location_cache
    temp,              \* table location_cache_temp
    entries,           \* the argument of the two successive upserts
    db_once,           \* location_cache after the first of them
    fail1,             \* where the store was unreachable in the first of them
    wpc,               \* position of each concurrent writer
    wbatch,            \* the batch of each concurrent writer
    seen               \* what the last concurrent get_cached_locations returned

vars == <<municipalities, cached_locations, locations, locations_to_save, i, pc,
          calls, now, saves, db, temp, entries, db_once, fail1, wpc, wbatch, seen>>

resolverVars == <<municipalities, cached_locations, locations, locations_to_save,
                  i, calls, now, saves>>
upsertVars == <<entries, db_once, fail1>>
writerVars == <<wpc, wbatch, seen>>

----------------------------------------------------------------------------
(* Bounds and input sets *)

MaxLen == 3         \* longest list of municipalities
MaxEntries == 2     \* longest batch handed to save_locations_to_db directly

Names == {"A", "B", "C"}

\* time.sleep(0.5), in tenths of a second
SleepTicks == 5

\* one unit of the 8th decimal place, in units of 10^-9 degrees
DecimalStep == 10

\* The coordinate the geocoder has for a name: one with 8 decimal places,
\* the others with 9.
ServiceCoord(m) == IF m = "A" THEN <<20, -30>> ELSE <<14, -45>>

\* A coordinate already in the table (8 decimal places).
StoredCoord == <<40, -70>>

Row(n, c) == [location_name |-> n, latitude |-> c[1], longitude |-> c[2]]

\* The tables location_cache can start as: one row for each name of a set.
InitialTables ==
    { { Row(n, StoredCoord) : n \in S } : S \in { {}, {"A", "C"} } }

SeqsUpTo(S, n) == UNION { [1..k -> S] : k \in 0..n }

\* dict[k] = v
Put(f, k, v) == [x \in DOMAIN f \cup {k} |-> IF x = k THEN v ELSE f[x]]

EmptyDict == [x \in {} |-> <<0, 0>>]

----------------------------------------------------------------------------
(* The store *)

Abs(v) == IF v < 0 THEN -v ELSE v

\* Assignment of a float to a DECIMAL(p, 8) column: rounded to 8 decimal
\* places, halves away from zero.
RoundToScale(v) ==
    LET q == ((Abs(v) + (DecimalStep \div 2)) \div DecimalStep) * DecimalStep
    IN  IF v < 0 THEN -q ELSE q

NoTemp == [exists |-> FALSE, rows |-> <<>>]

\* get_cached_locations: the whole table as a dict, {} when anything raises.
get_cached_locations(table, up) ==
    IF ~up THEN EmptyDict
    ELSE [n \in { r.location_name : r \in table } |->
            LET r == CHOOSE r \in table : r.location_name = n
            IN  <<r.latitude, r.longitude>>]

\* df.to_sql('location_cache_temp', engine, if_exists='replace', index=False)
to_sql(locations_data) == [exists |-> TRUE, rows |-> locations_data]

\* Two rows of one INSERT ... ON CONFLICT DO UPDATE with the same
\* location_name: the statement fails (it cannot affect a row a second time).
HasDuplicateNames(rows) ==
    \E a, b \in 1..Len(rows) : a # b /\ rows[a].location_name = rows[b].location_name

\* A SET clause that leaves the longitude out.
OnConflictLatitudeOnly(old, excluded) ==
    [old EXCEPT !.latitude = excluded.latitude]
\* ON CONFLICT (location_name) DO UPDATE SET latitude = EXCLUDED.latitude,
\*                                           longitude = EXCLUDED.longitude
OnConflictUpdate(old, excluded) ==
    [old EXCEPT !.latitude = excluded.latitude, !.longitude = excluded.longitude]

\* A plain INSERT into a table without the UNIQUE constraint.
InsertWithoutConflictTarget(table, rows) ==
    table \cup { [location_name |-> rows[k].location_name,
                  latitude |-> RoundToScale(rows[k].latitude),
                  longitude |-> RoundToScale(rows[k].longitude)] : k \in 1..Len(rows) }
\* INSERT INTO location_cache (...) SELECT ... FROM location_cache_temp
\* ON CONFLICT ...: the table after the statement.
InsertFromTemp(table, rows) ==
    LET excluded(k) == [location_name |-> rows[k].location_name,
                        latitude |-> RoundToScale(rows[k].latitude),
                        longitude |-> RoundToScale(rows[k].longitude)]
        named == { rows[k].location_name : k \in 1..Len(rows) }
        ex(n) == excluded(CHOOSE k \in 1..Len(rows) : rows[k].location_name = n)
        updated == { OnConflictUpdate(r, ex(r.location_name)) :
                        r \in { r \in table : r.location_name \in named } }
        inserted == { ex(n) : n \in named \ { r.location_name : r \in table } }
    IN  { r \in table : r.location_name \notin named } \cup updated \cup inserted

\* The second connection of save_locations_to_db (lines 77-87), one
\* transaction: the INSERT, the DROP TABLE, the commit.  It raises, and
\* changes nothing, when the staging table is missing or holds a name twice.
InsertAndDropOk(table, tmp) == tmp.exists /\ ~HasDuplicateNames(tmp.rows)
InsertAndDropTable(table, tmp) ==
    IF InsertAndDropOk(table, tmp) THEN InsertFromTemp(table, tmp.rows) ELSE table
InsertAndDropTemp(table, tmp) ==
    IF InsertAndDropOk(table, tmp) THEN NoTemp ELSE tmp

\* save_locations_to_db(locations_data) run alone, start to end.  failAt says
\* which of its three connections finds the store unreachable (0: none;
\* 1: CREATE TABLE IF NOT EXISTS; 2: to_sql; 3: the INSERT and DROP).
\* The result is the two tables afterwards and whether the call raised.
save_locations_to_db(table, tmp, locations_data, failAt) ==
    IF locations_data = <<>>
    THEN [db |-> table, temp |-> tmp, raised |-> FALSE]
    ELSE IF failAt \in {1, 2}
    THEN [db |-> table, temp |-> tmp, raised |-> TRUE]
    ELSE LET staged == to_sql(locations_data)
         IN  IF failAt = 3
             THEN [db |-> table, temp |-> staged, raised |-> TRUE]
             ELSE [db |-> InsertAndDropTable(table, staged),
                   temp |-> InsertAndDropTemp(table, staged),
                   raised |-> ~InsertAndDropOk(table, staged)]

FailPoints == 0..3

----------------------------------------------------------------------------
(* geocode_locations *)

FullQuery(m) == <<m, "British Columbia, Canada">>
BCQuery(m) == <<m, "BC">>

\* What geolocator.geocode does: a location, None, GeocoderTimedOut, or
\* another exception.
Responses(m) ==
    { [kind |-> "match", coord |-> ServiceCoord(m)],
      [kind |-> "none"], [kind |-> "timeout"], [kind |-> "error"] }

Raised(r) == r.kind \in {"timeout", "error"}

Call(k, m, q, r) == [idx |-> k, name |-> m, query |-> q, at |-> now, result |-> r]

\* An entry with the two coordinates the wrong way round.
SaveEntrySwapped(m, c) == [location_name |-> m, latitude |-> c[2], longitude |-> c[1]]
\* the dict appended to locations_to_save
SaveEntry(m, c) == [location_name |-> m, latitude |-> c[1], longitude |-> c[2]]

\* A test that never finds the name.
NeverCached(cached, m) == FALSE
\* if municipality in cached_locations
IsCached(cached, m) == m \in DOMAIN cached

\* A first call whose exceptions lead to the fallback query too.
AfterFirstRetryOnRaise(r) ==
    IF r.kind = "match" THEN "sleep" ELSE "fallback"
\* where the loop goes after the first geocode call
AfterFirst(r) ==
    IF r.kind = "match" THEN "sleep"
    ELSE IF r.kind = "none" THEN "fallback"
    ELSE "loop"

\* An except clause that leaves the loop.
BreakOnRaise(k) == Len(municipalities) + 1
\* the position the loop goes on with after an except clause
AfterRaise(k) == k + 1

\* A save that is not guarded.
AlwaysSave(batch) == TRUE
\* if locations_to_save
ShouldSave(batch) == batch # <<>>

ResolverInit ==
    /\ municipalities \in SeqsUpTo(Names, MaxLen)
    /\ db \in InitialTables
    /\ temp = NoTemp
    /\ cached_locations = EmptyDict
    /\ locations = EmptyDict
    /\ locations_to_save = <<>>
    /\ i = 1
    /\ pc = "start"
    /\ calls = <<>>
    /\ now = 0
    /\ saves = <<>>

\* cached_locations = get_cached_locations() and the set-up before the loop
LoadCache ==
    /\ pc = "start"
    /\ \E up \in BOOLEAN : cached_locations' = get_cached_locations(db, up)
    /\ pc' = "loop"
    /\ UNCHANGED <<municipalities, locations, locations_to_save, i, calls, now,
                   saves, db, temp>>

\* the if branch of the loop body
CacheHit ==
    /\ pc = "loop"
    /\ i <= Len(municipalities)
    /\ IsCached(cached_locations, municipalities[i])
    /\ locations' = Put(locations, municipalities[i],
                        cached_locations[municipalities[i]])
    /\ i' = i + 1
    /\ UNCHANGED <<municipalities, cached_locations, locations_to_save, pc, calls,
                   now, saves, db, temp>>

\* geolocator.geocode(f"{municipality}, British Columbia, Canada", timeout=10)
FirstLookup ==
    /\ pc = "loop"
    /\ i <= Len(municipalities)
    /\ ~IsCached(cached_locations, municipalities[i])
    /\ \E r \in Responses(municipalities[i]) :
        LET m == municipalities[i] IN
        /\ calls' = Append(calls, Call(i, m, FullQuery(m), r))
        /\ pc' = AfterFirst(r)
        /\ i' = IF AfterFirst(r) = "loop" THEN AfterRaise(i) ELSE i
        /\ IF r.kind = "match"
           THEN /\ locations' = Put(locations, m, r.coord)
                /\ locations_to_save' = Append(locations_to_save, SaveEntry(m, r.coord))
           ELSE UNCHANGED <<locations, locations_to_save>>
    /\ UNCHANGED <<municipalities, cached_locations, now, saves, db, temp>>

\* geolocator.geocode(f"{municipality}, BC", timeout=10)
FallbackLookup ==
    /\ pc = "fallback"
    /\ \E r \in Responses(municipalities[i]) :
        LET m == municipalities[i] IN
        /\ calls' = Append(calls, Call(i, m, BCQuery(m), r))
        /\ pc' = IF Raised(r) THEN "loop" ELSE "sleep"
        /\ IF r.kind = "match"
           THEN /\ locations' = Put(locations, m, r.coord)
                /\ locations_to_save' = Append(locations_to_save, SaveEntry(m, r.coord))
           ELSE UNCHANGED <<locations, locations_to_save>>
        /\ i' = IF Raised(r) THEN AfterRaise(i) ELSE i
    /\ UNCHANGED <<municipalities, cached_locations, now, saves, db, temp>>

\* time.sleep(0.5), the last statement of the try block
Sleep ==
    /\ pc = "sleep"
    /\ now' = now + SleepTicks
    /\ i' = i + 1
    /\ pc' = "loop"
    /\ UNCHANGED <<municipalities, cached_locations, locations, locations_to_save,
                   calls, saves, db, temp>>

\* after the loop: the save, then return locations
Flush ==
    /\ pc = "loop"
    /\ i > Len(municipalities)
    /\ IF ShouldSave(locations_to_save)
       THEN \E failAt \in FailPoints :
            LET res == save_locations_to_db(db, temp, locations_to_save, failAt) IN
            /\ saves' = Append(saves, locations_to_save)
            /\ db' = res.db
            /\ temp' = res.temp
            /\ pc' = IF res.raised THEN "raised" ELSE "returned"
       ELSE /\ pc' = "returned"
            /\ UNCHANGED <<saves, db, temp>>
    /\ UNCHANGED <<municipalities, cached_locations, locations, locations_to_save,
                   i, calls, now>>

Init ==
    /\ ResolverInit
    /\ entries = <<>> /\ db_once = {} /\ fail1 = 0
    /\ wpc = <<>> /\ wbatch = <<>> /\ seen = EmptyDict

Next ==
    \/ (LoadCache /\ UNCHANGED upsertVars /\ UNCHANGED writerVars)
    \/ (CacheHit /\ UNCHANGED upsertVars /\ UNCHANGED writerVars)
    \/ (FirstLookup /\ UNCHANGED upsertVars /\ UNCHANGED writerVars)
    \/ (FallbackLookup /\ UNCHANGED upsertVars /\ UNCHANGED writerVars)
    \/ (Sleep /\ UNCHANGED upsertVars /\ UNCHANGED writerVars)
    \/ (Flush /\ UNCHANGED upsertVars /\ UNCHANGED writerVars)

Spec == Init /\ [][Next]_vars

----------------------------------------------------------------------------
(* save_locations_to_db called twice in a row with the same entries *)

UpsertCoords == { ServiceCoord(n) : n \in Names }
UpsertEntries == { SaveEntry(n, c) : n \in Names, c \in UpsertCoords }

ResolverIdle ==
    /\ municipalities = <<>>
    /\ cached_locations = EmptyDict
    /\ locations = EmptyDict
    /\ locations_to_save = <<>>
    /\ i = 1
    /\ calls = <<>>
    /\ now = 0
    /\ saves = <<>>

UpsertInit ==
    /\ ResolverIdle
    /\ pc = "start"
    /\ db \in InitialTables
    /\ temp = NoTemp
    /\ entries \in SeqsUpTo(UpsertEntries, MaxEntries) \ {<<>>}
    /\ db_once = {}
    /\ fail1 = 0
    /\ wpc = <<>> /\ wbatch = <<>> /\ seen = EmptyDict

UpsertOnce ==
    /\ pc = "start"
    /\ \E failAt \in FailPoints :
        LET res == save_locations_to_db(db, temp, entries, failAt) IN
        /\ db' = res.db
        /\ temp' = res.temp
        /\ db_once' = res.db
        /\ fail1' = failAt
    /\ pc' = "once"
    /\ UNCHANGED <<entries, wpc, wbatch, seen>>
    /\ UNCHANGED resolverVars

UpsertTwice ==
    /\ pc = "once"
    /\ \E failAt \in FailPoints :
        LET res == save_locations_to_db(db, temp, entries, failAt) IN
        /\ db' = res.db
        /\ temp' = res.temp
    /\ pc' = "twice"
    /\ UNCHANGED <<entries, db_once, fail1, wpc, wbatch, seen>>
    /\ UNCHANGED resolverVars

NextUpsert == UpsertOnce \/ UpsertTwice

SpecUpsert == UpsertInit /\ [][NextUpsert]_vars

----------------------------------------------------------------------------
(* Two save_locations_to_db calls and get_cached_locations calls running   *)
(* concurrently against one store that stays reachable for the writers.    *)
(* Each writer takes two steps: to_sql (line 75, its own transaction) and  *)
(* the transaction of lines 77-87, whose INSERT and DROP TABLE become      *)
(* visible together at the commit.  A reader's SELECT sees committed rows. *)

Writers == {1, 2}

\* lists of geocoded entries as geocode_locations builds them from a list of
\* distinct municipalities (the caller passes unique(), line 300)
WriterBatches ==
    { [k \in 1..Len(ns) |-> SaveEntry(ns[k], ServiceCoord(ns[k]))] :
        ns \in { s \in SeqsUpTo(Names, MaxEntries) :
                    s # <<>> /\ \A a, b \in 1..Len(s) : a # b => s[a] # s[b] } }

ConcInit ==
    /\ ResolverIdle
    /\ pc = "concurrent"
    /\ db \in InitialTables
    /\ temp = NoTemp
    /\ entries = <<>> /\ db_once = {} /\ fail1 = 0
    /\ wpc = [w \in Writers |-> "start"]
    /\ wbatch \in [Writers -> WriterBatches]
    /\ seen = EmptyDict

\* df.to_sql('location_cache_temp', engine, if_exists='replace', index=False)
WriterToSql(w) ==
    /\ wpc[w] = "start"
    /\ temp' = to_sql(wbatch[w])
    /\ wpc' = [wpc EXCEPT ![w] = "staged"]
    /\ UNCHANGED <<db, wbatch, seen, pc>>
    /\ UNCHANGED resolverVars /\ UNCHANGED upsertVars

\* INSERT ... SELECT ... FROM location_cache_temp ON CONFLICT ...;
\* DROP TABLE location_cache_temp; commit
WriterInsertAndDrop(w) ==
    /\ wpc[w] = "staged"
    /\ db' = InsertAndDropTable(db, temp)
    /\ temp' = InsertAndDropTemp(db, temp)
    /\ wpc' = [wpc EXCEPT ![w] = IF InsertAndDropOk(db, temp) THEN "done" ELSE "error"]
    /\ UNCHANGED <<wbatch, seen, pc>>
    /\ UNCHANGED resolverVars /\ UNCHANGED upsertVars

\* a get_cached_locations call of another session
Reader ==
    /\ \E up \in BOOLEAN : seen' = get_cached_locations(db, up)
    /\ UNCHANGED <<db, temp, wpc, wbatch, pc>>
    /\ UNCHANGED resolverVars /\ UNCHANGED upsertVars

NextConc ==
    \/ \E w \in Writers : WriterToSql(w)
    \/ \E w \in Writers : WriterInsertAndDrop(w)
    \/ Reader

SpecConc == ConcInit /\ [][NextConc]_vars

----------------------------------------------------------------------------
(* Properties of geocode_locations, checked under Spec *)

CallIdx == 1..Len(calls)
MatchCalls == { k \in CallIdx : calls[k].result.kind = "match" }
IsMatch(c) == c.result.kind = "match"
Positions == 1..Len(municipalities)
Requested == { municipalities[p] : p \in Positions }
LoopOver == i > Len(municipalities) /\ pc \in {"loop", "returned"}
RoundCoord(c) == <<RoundToScale(c[1]), RoundToScale(c[2])>>
\* what a get_cached_locations that reaches the store returns now
LoadAll == get_cached_locations(db, TRUE)

\* C1: geocode_locations never aborts with an exception, whatever fails
\* (cache read, external lookup, cache write of the final flush): it always
\* ends by returning the mapping.
C1_NeverAborts == pc # "raised"

\* C2: between any two consecutive external geocode calls of one run at least
\* 0.5 s of enforced delay elapses, whatever the outcome of the earlier call;
\* so a run that looked up 3 uncached names has slept at least 1.0 s.
C2_DelayBetweenCalls ==
    /\ \A k \in CallIdx : k > 1 => calls[k].at - calls[k - 1].at >= SleepTicks
    /\ (pc = "returned" /\ Cardinality({ calls[k].idx : k \in CallIdx }) = 3)
          => now >= 2 * SleepTicks

\* C3: a requested name that is a key of the mapping get_cached_locations
\* returned at the start gets no external call, and once processed it is in
\* the result with exactly the cached coordinate.
C3_CacheHitShortCircuit ==
    \A n \in DOMAIN cached_locations :
        /\ \A k \in CallIdx : calls[k].name # n
        /\ \A p \in Positions :
              (p < i /\ municipalities[p] = n)
                 => (n \in DOMAIN locations /\ locations[n] = cached_locations[n])

C3_Witness ==
    /\ pc = "returned"
    /\ calls # <<>>
    /\ \E p \in Positions : municipalities[p] \in DOMAIN cached_locations

\* C4 as stated: when the geocoder returned coordinate C for an uncached name,
\* the returned mapping has name -> C, and after the return the table read
\* back has (name, C).
C4_MissThenCacheExact ==
    pc = "returned" =>
        \A k \in MatchCalls :
            /\ calls[k].name \in DOMAIN locations
            /\ locations[calls[k].name] = calls[k].result.coord
            /\ calls[k].name \in DOMAIN LoadAll
            /\ LoadAll[calls[k].name] = calls[k].result.coord

\* C4 amended: the returned mapping has name -> C, and after the return the
\* table read back has name -> C rounded to the 8 decimal places the
\* DECIMAL columns keep.
C4_MissThenCacheRounded ==
    pc = "returned" =>
        \A k \in MatchCalls :
            /\ calls[k].name \in DOMAIN locations
            /\ locations[calls[k].name] = calls[k].result.coord
            /\ calls[k].name \in DOMAIN LoadAll
            /\ LoadAll[calls[k].name] = RoundCoord(calls[k].result.coord)

C4_Witness ==
    /\ pc = "returned"
    /\ \E k \in MatchCalls :
          /\ calls[k].name \notin DOMAIN cached_locations
          /\ RoundCoord(calls[k].result.coord) # calls[k].result.coord
          /\ LoadAll[calls[k].name] = RoundCoord(calls[k].result.coord)

\* C5: a failed lookup (timeout, error, no match on both queries) only leaves
\* its own name out.  Once the loop is over, every position was processed, and
\* the mapping holds exactly the requested names that were cached or that a
\* lookup matched, each with its coordinate; after a raise the loop is at a
\* later position.
C5_PartialFailureIsolation ==
    /\ \A k \in CallIdx : Raised(calls[k].result) => i > calls[k].idx
    /\ LoopOver =>
        /\ \A p \in Positions :
              \/ municipalities[p] \in DOMAIN cached_locations
              \/ \E k \in CallIdx : calls[k].idx = p
        /\ DOMAIN locations =
              (Requested \cap DOMAIN cached_locations)
                 \cup { calls[k].name : k \in MatchCalls }
        /\ \A n \in Requested \cap DOMAIN cached_locations :
              locations[n] = cached_locations[n]
        /\ \A k \in MatchCalls : locations[calls[k].name] = calls[k].result.coord

C5_Witness ==
    /\ pc = "returned"
    /\ \E k \in CallIdx :
          /\ Raised(calls[k].result)
          /\ calls[k].name \notin DOMAIN locations
          /\ \E j \in MatchCalls : j > k /\ calls[j].name \in DOMAIN locations
          /\ \E p \in Positions :
                /\ p < calls[k].idx
                /\ municipalities[p] \in DOMAIN locations

\* C8: for a position that misses the cache the first call uses the query
\* "{name}, British Columbia, Canada"; the query "{name}, BC" is issued once,
\* right after a first call that returned no result, and never after a match
\* or a raise; so a position gets at most two calls, and a name no lookup
\* matched is not in the result.
C8_LookupOrdering ==
    /\ \A k \in CallIdx :
        LET c == calls[k] IN
        /\ c.query \in {FullQuery(c.name), BCQuery(c.name)}
        /\ c.name = municipalities[c.idx]
        /\ c.query = FullQuery(c.name) => (k = 1 \/ calls[k - 1].idx < c.idx)
        /\ c.query = BCQuery(c.name) =>
              /\ k > 1
              /\ calls[k - 1].idx = c.idx
              /\ calls[k - 1].query = FullQuery(c.name)
              /\ calls[k - 1].result.kind = "none"
        /\ (c.query = FullQuery(c.name) /\ c.result.kind = "none") =>
              IF k = Len(calls)
              THEN pc = "fallback" /\ i = c.idx
              ELSE calls[k + 1].idx = c.idx /\ calls[k + 1].query = BCQuery(c.name)
    /\ \A p \in Positions : Cardinality({ k \in CallIdx : calls[k].idx = p }) <= 2
    /\ LoopOver =>
          \A n \in Requested \ DOMAIN cached_locations :
              (\A k \in CallIdx : calls[k].name = n => ~IsMatch(calls[k]))
                 => n \notin DOMAIN locations

C8_Witness ==
    /\ pc = "returned"
    /\ \E k \in MatchCalls : calls[k].query = BCQuery(calls[k].name)
    /\ \E k \in CallIdx :
          calls[k].query = FullQuery(calls[k].name) /\ Raised(calls[k].result)

MatchEntry(c) == SaveEntry(c.name, c.result.coord)
MatchedEntries ==
    LET m == SelectSeq(calls, IsMatch)
    IN  [k \in 1..Len(m) |-> MatchEntry(m[k])]

\* C9: in one run save_locations_to_db is called at most once, only after the
\* last name was processed, and exactly when some external lookup matched;
\* its batch is the names looked up with a match in this run, in order, with
\* their coordinates (no cache hit, no failed name).
C9_SingleFlush ==
    /\ Len(saves) <= 1
    /\ saves # <<>> => (i > Len(municipalities) /\ pc \in {"returned", "raised"})
    /\ pc \in {"returned", "raised"} => (Len(saves) = 1 <=> MatchCalls # {})
    /\ saves # <<>> => saves[1] = MatchedEntries

C9_Witness ==
    /\ pc = "returned"
    /\ Len(saves) = 1
    /\ \E p \in Positions : municipalities[p] \in DOMAIN cached_locations
    /\ \E k \in CallIdx : ~IsMatch(calls[k])

----------------------------------------------------------------------------
(* Properties of save_locations_to_db, checked under SpecUpsert and SpecConc *)

UniqueNames(table) ==
    \A r1, r2 \in table : r1.location_name = r2.location_name => r1 = r2

C7_ReadersSeeWholeRows ==
    \A n \in DOMAIN seen :
        \/ seen[n] = StoredCoord
        \/ \E w \in Writers : \E k \in 1..Len(wbatch[w]) :
              /\ wbatch[w][k].location_name = n
              /\ seen[n] = RoundCoord(<<wbatch[w][k].latitude, wbatch[w][k].longitude>>)

C7_Witness ==
    /\ \E w \in Writers : wpc[w] = "staged"
    /\ \E n \in DOMAIN seen : seen[n] = StoredCoord
    /\ \E n \in DOMAIN seen : seen[n] # StoredCoord
    /\ seen = LoadAll

\* C10: when two save_locations_to_db calls run concurrently against one
\* store, in every interleaving both complete without error and the table
\* afterwards has every entry of both batches.
C10_ConcurrentWritersSafe ==
    /\ \A w \in Writers : wpc[w] # "error"
    /\ (\A w \in Writers : wpc[w] = "done") =>
          \A w \in Writers : \A k \in 1..Len(wbatch[w]) :
              wbatch[w][k].location_name \in DOMAIN LoadAll

====
